---------------------------- MODULE Spec2Model ----------------------------
(***************************************************************************)
(* The descriptor table of syscall/fs_js.go: the table files guarded by    *)
(* filesMu, the jsFile records, and the syscall entry points that look a   *)
(* descriptor up, call the host (Node's fs) through fsCall/recoverErr and  *)
(* update the record.  Each thread runs one entry point at a time; an      *)
(* entry point is split at its accesses to shared state (the mutex, the    *)
(* table, a record's fields, the host).                                    *)
(***************************************************************************)
EXTENDS Integers, Sequences, FiniteSets, TLC

(* ------------------------------ bounds -------------------------------- *)

\* Host descriptors are 0..MaxFd (the host refuses to open more: EMFILE).
MaxFd == 3
\* Operations started in one behaviour.
MaxOps == 3
\* Width in bits of the model's signed integers (int64 in the source).
IntBits == 3
\* Longest buffer handed to Read, Write, Pread, Pwrite.
MaxIO == 2
\* Longest directory listing the host returns.
MaxEntries == 3

(* --------------------------- basic values ----------------------------- *)

Threads == {"t1", "t2"}
SeqThreads == {"t1"}

FDs == 0 .. MaxFd
\* The descriptors the callers pass: 0 stands for the three standard
\* streams (1 and 2 differ from it in nothing but their number), the
\* others are those Open can return.
InFds == {0} \cup (3 .. MaxFd)
RecIds == 1 .. (MaxFd + 1 + Cardinality(Threads))
NoRec == 0

MaxInt == 2 ^ (IntBits - 1) - 1
MinInt == 0 - 2 ^ (IntBits - 1)

\* int64 arithmetic: two's complement wrap-around.
WrapInt(x) == ((x - MinInt) % (2 ^ IntBits)) + MinInt

SeekStart == 0
SeekCurrent == 1
SeekEnd == 2

Nil == "nil"
EINVAL == "EINVAL"
EBADF == "EBADF"
ENOSYS == "ENOSYS"

\* Paths are sequences of characters; NUL is the zero byte.
NUL == "NUL"
EmptyPath == << >>
FilePath == <<"f">>
DirPath == <<"d">>
Paths == {EmptyPath, FilePath, DirPath, <<"f", NUL>>}

\* What the host's fstatSync(fd).isDirectory() says of a descriptor opened
\* on the path.
IsDirectory(path) == path = DirPath

\* Entry names are byte sequences: Name(1) = "a", Name(2) = "bb", ...
Name(i) == [j \in 1 .. i |-> 96 + i]
\* The listings readdirSync may return: up to MaxEntries names, the short
\* names first ("a", "bb", "ccc") or the long names first.
Listings ==
    {[i \in 1 .. k |-> Name(i)] : k \in 0 .. MaxEntries}
    \cup {[i \in 1 .. k |-> Name(MaxEntries + 1 - i)] : k \in 0 .. MaxEntries}
\* The bytes of the longest listing's records.
RECURSIVE RecordBytes(_)
RecordBytes(k) == IF k = 0 THEN 0 ELSE 2 + k + RecordBytes(k - 1)
MaxBuf == RecordBytes(MaxEntries)

Offsets == {MinInt, -1, 0, 1, MaxInt}
Whences == {SeekStart, SeekCurrent, SeekEnd, 3}
Sizes == {0, 1, MaxInt}
IOLens == 0 .. MaxIO
Caps == 0 .. MaxBuf
TsLens == {1, 2, 3}


(* --------------------- the host and its failures ---------------------- *)

\* What a host call raises: a js.Error carrying a code, or something else.
JsError(code) == [js |-> TRUE, code |-> code]
NotJsError == [js |-> FALSE, code |-> "TypeError"]
NoThrown == [js |-> FALSE, code |-> "none"]

\* The code -> errno table (the codes the model's host raises and knows).
ErrnoCodes == {"ENOENT", "EIO", "EBADF", "EMFILE", "EINVAL", "EEXIST"}
errnoByCode == [c \in ErrnoCodes |-> c]

\* A host call either returns a value or raises.
Returns(v) == [raised |-> FALSE, val |-> v, thrown |-> NotJsError]
Raises(x) == [raised |-> TRUE, val |-> 0, thrown |-> x]

\* Failures the host may raise on any call: a known code, a code the table
\* lacks, and a value that is no js.Error.
Spontaneous(code) == {Raises(JsError(code)), Raises(JsError("EWEIRD")), Raises(NotJsError)}

\* A recovery that turns a code the table lacks into a plain EINVAL.
recoverErrGeneric(x) ==
    IF ~x.js THEN [panic |-> TRUE, err |-> Nil]
    ELSE IF x.code \notin DOMAIN errnoByCode THEN [panic |-> FALSE, err |-> EINVAL]
    ELSE [panic |-> FALSE, err |-> errnoByCode[x.code]]

\* recoverErr: what a raised value becomes: a translated errno, or the
\* panic raised again.
recoverErr(x) ==
    IF ~x.js THEN [panic |-> TRUE, err |-> Nil]
    ELSE IF x.code \notin DOMAIN errnoByCode THEN [panic |-> TRUE, err |-> Nil]
    ELSE [panic |-> FALSE, err |-> errnoByCode[x.code]]

\* fsCall: the host's outcome as the caller sees it.
fsCall(o) ==
    IF o.raised
    THEN LET r == recoverErr(o.thrown)
         IN  [panic |-> r.panic, err |-> r.err, val |-> 0, thrown |-> o.thrown]
    ELSE [panic |-> FALSE, err |-> Nil, val |-> o.val, thrown |-> o.thrown]

\* A path check that lets a zero byte through.
checkPathEmptyOnly(path) == IF path = EmptyPath THEN EINVAL ELSE Nil

\* checkPath: a path must be non-empty and hold no zero byte.
checkPath(path) ==
    IF path = EmptyPath THEN EINVAL
    ELSE IF \E i \in 1 .. Len(path) : path[i] = NUL THEN EINVAL
    ELSE Nil

(* ------------------------------ state --------------------------------- *)

VARIABLES
    files,      \* the descriptor table: descriptor -> record (a pointer)
    heap,       \* the jsFile records, by pointer
    filesMu,    \* the table mutex: its holder, or Nil
    hostOpen,   \* the descriptors open in the host
    hostPath,   \* the path each host descriptor was opened on
    pc,         \* each thread's position
    th,         \* each thread's current call: arguments, locals, result
    crashed,    \* an unrecovered panic ended the process
    nops,       \* operations started so far
    closedBy,   \* history: descriptor numbers passed to Close, not reopened since
    openedBy,   \* history: descriptors an Open returned, not passed to Close since;
                \* stray: the number was passed to Close with no entry in the table
    seekWrite   \* history: progress of a Seek(start), Write sequence

vars == <<files, heap, filesMu, hostOpen, hostPath, pc, th, crashed, nops,
          closedBy, openedBy, seekWrite>>

\* A record that takes an empty listing for no listing.
jsFileEmptyAbsent(path, entries, isNil) ==
    [path |-> path, entries |-> entries, entriesNil |-> (isNil \/ entries = << >>),
     pos |-> 0, seeked |-> FALSE, listing |-> entries, delivered |-> << >>]

\* A record that does not keep the path it was opened on.
jsFileUnnamed(path, entries, isNil) ==
    [path |-> EmptyPath, entries |-> entries, entriesNil |-> isNil, pos |-> 0,
     seeked |-> FALSE, listing |-> entries, delivered |-> << >>]

\* A fresh jsFile (lines 106-109; the three standard streams are &jsFile{}).
\* listing and delivered are history: the listing captured at Open and the
\* bytes ReadDirent has written for the record so far.
jsFile(path, entries, isNil) ==
    [path |-> path, entries |-> entries, entriesNil |-> isNil, pos |-> 0,
     seeked |-> FALSE, listing |-> entries, delivered |-> << >>]

NoPre == [has |-> FALSE, files |-> << >>, heap |-> << >>]
NoSeekWrite == [stage |-> "none", fd |-> 0, p |-> 0, n |-> 0, len |-> 0]
NotOpened ==
    [live |-> FALSE, rec |-> NoRec, path |-> EmptyPath, pos |-> 0, seeked |-> FALSE,
     stray |-> FALSE]

\* A thread between calls.
Fresh ==
    [op |-> "none", fd |-> 0, path |-> EmptyPath, path2 |-> EmptyPath,
     off |-> 0, whence |-> 0, len |-> 0,
     f |-> NoRec, hfd |-> 0, n |-> 0, newPos |-> 0, tmp |-> 0, size |-> 0,
     ents |-> << >>, entsNil |-> TRUE, explicit |-> FALSE,
     ret |-> 0, err |-> Nil, out |-> << >>, calls |-> << >>, pre |-> NoPre,
     thrown |-> NoThrown, openmode |-> 0, flags |-> 0]

Init ==
    /\ files = [fd \in {0, 1, 2} |-> fd + 1]
    /\ heap = [r \in {1, 2, 3} |-> jsFile(EmptyPath, << >>, TRUE)]
    /\ filesMu = Nil
    /\ hostOpen = {0, 1, 2}
    /\ hostPath = [fd \in FDs |-> EmptyPath]
    /\ pc = [t \in Threads |-> "idle"]
    /\ th = [t \in Threads |-> Fresh]
    /\ crashed = FALSE
    /\ nops = 0
    /\ closedBy = [fd \in FDs |-> "no"]
    /\ openedBy = [fd \in FDs |-> NotOpened]
    /\ seekWrite = NoSeekWrite


(* ------------------------- table and records -------------------------- *)

\* A delete that leaves the entry in the table.
TableKeep(fl, fd) == fl

\* delete(files, fd), line 118.
TableDelete(fl, fd) == [x \in DOMAIN fl \ {fd} |-> fl[x]]

\* An insert that drops every other entry.
TableInsertAlone(fl, fd, r) == [x \in {fd} |-> r]

\* files[fd] = f, line 111.
TableInsert(fl, fd, r) == [x \in DOMAIN fl \cup {fd} |-> IF x = fd THEN r ELSE fl[x]]

\* f, ok := files[fd], lines 49-54.
fdToFile(fl, fd) ==
    IF fd \in DOMAIN fl THEN [f |-> fl[fd], err |-> Nil]
    ELSE [f |-> NoRec, err |-> EBADF]

\* Records nothing points at any more are collected.
Collect(h, fl, thr) ==
    [r \in {x \in DOMAIN h : \/ \E fd \in DOMAIN fl : fl[fd] = x
                             \/ \E t \in Threads : thr[t].f = x} |-> h[r]]

\* The pointer a new record gets.
NewRec(h) ==
    CHOOSE r \in RecIds : r \notin DOMAIN h /\ \A q \in RecIds : q < r => q \in DOMAIN h

(* ----------------------------- host calls ----------------------------- *)

\* One entry of a thread's log of the host calls its current operation
\* made: the call, and what the host raised (NoThrown when it returned).
HostCall(name, fd, path, positioned, off, o) ==
    [name |-> name, fd |-> fd, path |-> path, positioned |-> positioned, off |-> off,
     thrown |-> IF o.raised THEN o.thrown ELSE NoThrown]

\* openSync: the lowest free descriptor, or a failure.
jsOpenSync(open) ==
    Spontaneous("ENOENT")
    \cup (IF FDs \ open = {} THEN {Raises(JsError("EMFILE"))}
          ELSE {Returns(CHOOSE fd \in FDs \ open : \A x \in FDs \ open : fd <= x)})

\* fstatSync: whether the descriptor is a directory, and its size.
jsFstatSync(open, paths, fd) ==
    IF fd \notin open THEN {Raises(JsError("EBADF"))}
    ELSE Spontaneous("EIO")
         \cup {Returns([isDirectory |-> IsDirectory(paths[fd]), size |-> sz]) : sz \in Sizes}

\* readdirSync: some listing of the directory.
jsReaddirSync == Spontaneous("EIO") \cup {Returns(l) : l \in Listings}

\* closeSync releases the descriptor; when it fails the descriptor may or
\* may not have been released.
jsCloseSync(open, fd) ==
    IF fd \notin open THEN {[o |-> Raises(JsError("EBADF")), open |-> open]}
    ELSE {[o |-> Returns(0), open |-> open \ {fd}]}
         \cup {[o |-> x, open |-> op] : x \in Spontaneous("EIO"), op \in {open, open \ {fd}}}

\* readSync/writeSync move at most len bytes and never past the largest
\* file offset.
jsTransfer(open, fd, len, from) ==
    IF fd \notin open THEN {Raises(JsError("EBADF"))}
    ELSE Spontaneous("EIO") \cup {Returns(n) : n \in {k \in 0 .. len : from + k <= MaxInt}}

\* Every other host call on a descriptor, and every call on a path.
jsFdCall(open, fd) ==
    IF fd \notin open THEN {Raises(JsError("EBADF"))}
    ELSE Spontaneous("EIO") \cup {Returns(0)}
jsPathCall == Spontaneous("ENOENT") \cup {Returns(0)}

(* --------------------------- thread steps ----------------------------- *)

Snapshot == [has |-> TRUE, files |-> files, heap |-> heap]

\* A thread between calls may start an operation.
Ready(t) == ~crashed /\ pc[t] = "idle" /\ nops < MaxOps

\* A thread starts an operation: its arguments, and the table as it finds it.
Begin(t, call) ==
    /\ Ready(t)
    /\ nops' = nops + 1
    /\ th' = [th EXCEPT ![t] = [call EXCEPT !.pre = Snapshot]]

\* A thread takes the step of its operation it stands at.
At(t, label) == ~crashed /\ pc[t] = label /\ UNCHANGED nops

Goto(t, label) == pc' = [pc EXCEPT ![t] = label] /\ UNCHANGED crashed

\* The operation returns (ret, err); its locals die.
Return(cur, ret, err) ==
    [cur EXCEPT !.ret = ret, !.err = err, !.f = NoRec, !.hfd = 0, !.n = 0,
                !.newPos = 0, !.tmp = 0, !.ents = << >>, !.entsNil = TRUE,
                !.explicit = FALSE]

\* The caller has its result and is ready for its next call.
Resume(t) ==
    /\ At(t, "done")
    /\ th' = [th EXCEPT ![t] = Fresh]
    /\ pc' = [pc EXCEPT ![t] = "idle"]
    /\ UNCHANGED <<files, heap, filesMu, hostOpen, hostPath, crashed,
                   closedBy, openedBy, seekWrite>>

\* An untranslatable host failure: the panic is raised again and ends the process.
Panic(t) ==
    /\ pc' = [pc EXCEPT ![t] = "panicked"]
    /\ crashed' = TRUE

\* The thread the panic unwinds: what it was doing, and the value raised.
Panicked(cur, r) == [cur EXCEPT !.thrown = r.thrown]

Logged(cur, c) == [cur EXCEPT !.calls = Append(@, c)]

\* filesMu.Lock() / filesMu.Unlock().
Lock(t) == filesMu = Nil /\ filesMu' = t
Unlock(t) == filesMu' = Nil

\* History: an operation on descriptor fd that is no step of the
\* Seek(start), Write, Seek(current) sequence ends the sequence.
Interrupts(fd) ==
    IF seekWrite.stage # "none" /\ seekWrite.fd = fd THEN NoSeekWrite ELSE seekWrite


HostSame == UNCHANGED <<hostOpen, hostPath>>
TableSame == UNCHANGED <<files, heap, filesMu>>
HistSame == UNCHANGED <<closedBy, openedBy, seekWrite>>

(* ------------------------------- Open --------------------------------- *)

\* The open modes of the Go library (O_RDONLY, O_WRONLY, ... of package
\* syscall): independent bits.
O_WRONLY == 1
O_RDWR == 2
O_CREATE == 4
O_TRUNC == 8
O_APPEND == 16
O_EXCL == 32
O_NONBLOCK == 64
O_SYNC == 128

\* Line 20: the host's fs.constants (the values of a Linux host, O_SYNC
\* without its O_DSYNC bit).
constants ==
    [O_WRONLY |-> 1, O_RDWR |-> 2, O_CREAT |-> 64, O_EXCL |-> 128, O_TRUNC |-> 512,
     O_APPEND |-> 1024, O_NONBLOCK |-> 2048, O_SYNC |-> 4096]

\* Lines 22-31.
nodeWRONLY == constants.O_WRONLY
nodeRDWR == constants.O_RDWR
nodeCREATE == constants.O_CREAT
nodeTRUNC == constants.O_TRUNC
nodeAPPEND == constants.O_APPEND
nodeEXCL == constants.O_EXCL
nodeNONBLOCK == constants.O_NONBLOCK
nodeSYNC == constants.O_SYNC

\* Go's & and | on non-negative integers.
RECURSIVE BitAnd(_, _)
BitAnd(a, b) ==
    IF a = 0 \/ b = 0 THEN 0
    ELSE (a % 2) * (b % 2) + 2 * BitAnd(a \div 2, b \div 2)
RECURSIVE BitOr(_, _)
BitOr(a, b) ==
    IF a = 0 THEN b ELSE IF b = 0 THEN a
    ELSE (IF a % 2 = 1 \/ b % 2 = 1 THEN 1 ELSE 0) + 2 * BitOr(a \div 2, b \div 2)

\* One of the eight tests: if openmode&bit != 0 { flags |= node }.
FlagIf(openmode, bit, node, fl) == IF BitAnd(openmode, bit) # 0 THEN BitOr(fl, node) ELSE fl

\* A translation that forgets the exclusive-create bit.
flagsWithoutExcl(openmode) ==
    FlagIf(openmode, O_SYNC, nodeSYNC,
    FlagIf(openmode, O_NONBLOCK, nodeNONBLOCK,
    FlagIf(openmode, O_APPEND, nodeAPPEND,
    FlagIf(openmode, O_TRUNC, nodeTRUNC,
    FlagIf(openmode, O_CREATE, nodeCREATE,
    FlagIf(openmode, O_RDWR, nodeRDWR,
    FlagIf(openmode, O_WRONLY, nodeWRONLY, 0)))))))

\* Lines 62-86: flags, the host's open flags for openmode.
flags(openmode) ==
    FlagIf(openmode, O_SYNC, nodeSYNC,
    FlagIf(openmode, O_NONBLOCK, nodeNONBLOCK,
    FlagIf(openmode, O_EXCL, nodeEXCL,
    FlagIf(openmode, O_APPEND, nodeAPPEND,
    FlagIf(openmode, O_TRUNC, nodeTRUNC,
    FlagIf(openmode, O_CREATE, nodeCREATE,
    FlagIf(openmode, O_RDWR, nodeRDWR,
    FlagIf(openmode, O_WRONLY, nodeWRONLY, 0))))))))

\* Every open mode made of the eight bits, and the one the callers of the
\* other operations use: read-write with create.
AllModes == 0 .. (2 * O_SYNC - 1)
OpenModes == {O_RDWR + O_CREATE}

\* Lines 57-88: checkPath, the flags, then on to the host's openSync, which
\* is given path and flags.
OpenCall(t, modes) ==
    /\ Ready(t)
    /\ \E path \in Paths, openmode \in modes :
        LET call == [Fresh EXCEPT !.op = "Open", !.path = path, !.openmode = openmode] IN
        /\ IF checkPath(path) # Nil
           THEN Begin(t, Return(call, 0, checkPath(path))) /\ Goto(t, "done")
           ELSE Begin(t, [call EXCEPT !.flags = flags(openmode)]) /\ Goto(t, "Open_openSync")
        /\ TableSame /\ HostSame /\ HistSame

Open(t) == OpenCall(t, OpenModes)
OpenAnyMode(t) == OpenCall(t, AllModes)

\* Lines 88-92: fsCall("openSync", path, flags, perm).
Open_openSync(t) ==
    /\ At(t, "Open_openSync")
    /\ \E o \in jsOpenSync(hostOpen) :
        LET r == fsCall(o)
            cur == Logged(th[t], HostCall("openSync", 0, th[t].path, FALSE, 0, o))
        IN  IF r.panic
            THEN Panic(t) /\ th' = [th EXCEPT ![t] = Panicked(cur, r)] /\ HostSame
            ELSE IF r.err # Nil
            THEN /\ th' = [th EXCEPT ![t] = Return(cur, 0, r.err)]
                 /\ Goto(t, "done") /\ HostSame
            ELSE /\ hostOpen' = hostOpen \cup {r.val}
                 /\ hostPath' = [hostPath EXCEPT ![r.val] = th[t].path]
                 /\ th' = [th EXCEPT ![t] = [cur EXCEPT !.hfd = r.val]]
                 /\ Goto(t, "Open_fstatSync")
    /\ TableSame /\ HistSame

\* Line 95: fsCall("fstatSync", fd); a failure here is dropped and the
\* descriptor is taken for a plain file.
Open_fstatSync(t) ==
    /\ At(t, "Open_fstatSync")
    /\ \E o \in jsFstatSync(hostOpen, hostPath, th[t].hfd) :
        LET r == fsCall(o)
            cur == Logged(th[t], HostCall("fstatSync", th[t].hfd, EmptyPath, FALSE, 0, o))
        IN  IF r.panic THEN Panic(t) /\ th' = [th EXCEPT ![t] = Panicked(cur, r)]
            ELSE /\ th' = [th EXCEPT ![t] = cur]
                 /\ IF r.err = Nil /\ r.val.isDirectory THEN Goto(t, "Open_readdirSync")
                    ELSE Goto(t, "Open_lock")
    /\ TableSame /\ HostSame /\ HistSame

\* Lines 96-103: fsCall("readdirSync", path); entries is the listing, an
\* empty one included (make([]string, 0) is not nil).
Open_readdirSync(t) ==
    /\ At(t, "Open_readdirSync")
    /\ \E o \in jsReaddirSync :
        LET r == fsCall(o)
            cur == Logged(th[t], HostCall("readdirSync", 0, th[t].path, FALSE, 0, o))
        IN  IF r.panic THEN Panic(t) /\ th' = [th EXCEPT ![t] = Panicked(cur, r)]
            ELSE IF r.err # Nil
            THEN th' = [th EXCEPT ![t] = Return(cur, 0, r.err)] /\ Goto(t, "done")
            ELSE /\ th' = [th EXCEPT ![t] = [cur EXCEPT !.ents = r.val, !.entsNil = FALSE]]
                 /\ Goto(t, "Open_lock")
    /\ TableSame /\ HostSame /\ HistSame

\* Line 110.
Open_lock(t) ==
    /\ At(t, "Open_lock")
    /\ Lock(t)
    /\ Goto(t, "Open_insert")
    /\ UNCHANGED <<files, heap, th>> /\ HostSame /\ HistSame

\* A Close of the number is under way.
Closing(fd) ==
    \E u \in Threads : pc[u] \in {"Close_delete", "Close_closeSync"} /\ th[u].fd = fd

\* Lines 106-113: the new record goes into the table and Open returns fd.
\* (History: the descriptor is this Open's unless the number is one an
\* earlier Open returned and no Close was given, or is being closed.)
Open_insert(t) ==
    /\ At(t, "Open_insert")
    /\ LET cur == th[t]
           r == NewRec(heap)
           f == jsFile(cur.path, cur.ents, cur.entsNil)
           h == [x \in DOMAIN heap \cup {r} |-> IF x = r THEN f ELSE heap[x]]
       IN  /\ files' = TableInsert(files, cur.hfd, r)
           /\ th' = [th EXCEPT ![t] = Return(cur, cur.hfd, Nil)]
           /\ heap' = Collect(h, files', th')
           /\ closedBy' = [closedBy EXCEPT ![cur.hfd] = "no"]
           /\ openedBy' = [openedBy EXCEPT ![cur.hfd] =
                  IF @.live \/ Closing(cur.hfd) THEN @
                  ELSE [live |-> TRUE, rec |-> r, path |-> cur.path,
                        pos |-> f.pos, seeked |-> f.seeked, stray |-> @.stray]]
           /\ seekWrite' = Interrupts(cur.hfd)
    /\ Unlock(t)
    /\ Goto(t, "done")
    /\ HostSame

(* ------------------------------- Close -------------------------------- *)

\* Lines 116-117.
Close(t) ==
    /\ Ready(t)
    /\ \E fd \in InFds :
        /\ Begin(t, [Fresh EXCEPT !.op = "Close", !.fd = fd])
        /\ Lock(t)
        /\ Goto(t, "Close_delete")
        /\ closedBy' = [closedBy EXCEPT ![fd] = "pending"]
        /\ openedBy' = [openedBy EXCEPT ![fd] =
               [NotOpened EXCEPT !.stray = @ \/ openedBy[fd].stray \/ fd \notin DOMAIN files]]
        /\ seekWrite' = Interrupts(fd)
        /\ UNCHANGED <<files, heap>> /\ HostSame

\* A Close that keeps the mutex while it goes on to the host.
Close_deleteLocked(t) ==
    /\ At(t, "Close_delete")
    /\ files' = TableDelete(files, th[t].fd)
    /\ heap' = Collect(heap, files', th)
    /\ Goto(t, "Close_closeSync")
    /\ UNCHANGED <<th, filesMu>> /\ HostSame /\ HistSame

\* Lines 118-119.
Close_delete(t) ==
    /\ At(t, "Close_delete")
    /\ files' = TableDelete(files, th[t].fd)
    /\ heap' = Collect(heap, files', th)
    /\ Unlock(t)
    /\ Goto(t, "Close_closeSync")
    /\ UNCHANGED th /\ HostSame /\ HistSame

\* A Close that drops the error of the host's closeSync.
Close_closeSyncIgnored(t) ==
    /\ At(t, "Close_closeSync")
    /\ \E c \in jsCloseSync(hostOpen, th[t].fd) :
        LET r == fsCall(c.o)
            cur == Logged(th[t], HostCall("closeSync", th[t].fd, EmptyPath, FALSE, 0, c.o))
        IN  /\ hostOpen' = c.open
            /\ IF r.panic
               THEN Panic(t) /\ th' = [th EXCEPT ![t] = Panicked(cur, r)] /\ UNCHANGED closedBy
               ELSE /\ th' = [th EXCEPT ![t] = Return(cur, 0, Nil)]
                    /\ Goto(t, "done")
                    /\ closedBy' = [closedBy EXCEPT ![cur.fd] =
                           IF @ # "pending" THEN @ ELSE "ok"]
    /\ TableSame /\ UNCHANGED <<hostPath, openedBy, seekWrite>>

\* Lines 120-121: fsCall("closeSync", fd); its error is Close's.
Close_closeSync(t) ==
    /\ At(t, "Close_closeSync")
    /\ \E c \in jsCloseSync(hostOpen, th[t].fd) :
        LET r == fsCall(c.o)
            cur == Logged(th[t], HostCall("closeSync", th[t].fd, EmptyPath, FALSE, 0, c.o))
        IN  /\ hostOpen' = c.open
            /\ IF r.panic
               THEN Panic(t) /\ th' = [th EXCEPT ![t] = Panicked(cur, r)] /\ UNCHANGED closedBy
               ELSE /\ th' = [th EXCEPT ![t] = Return(cur, 0, r.err)]
                    /\ Goto(t, "done")
                    /\ closedBy' = [closedBy EXCEPT ![cur.fd] =
                           IF @ # "pending" THEN @
                           ELSE IF r.err = Nil THEN "ok" ELSE "failed"]
    /\ TableSame /\ UNCHANGED <<hostPath, openedBy, seekWrite>>

(* ----------------------- the table lookup ----------------------------- *)

\* Where an operation goes on once fdToFile has found its record.
AfterLookup(op) ==
    CASE op = "Read" -> "Read_io"
      [] op = "Write" -> "Write_io"
      [] op = "Seek" -> "Seek_newPos"
      [] op = "ReadDirent" -> "ReadDirent_loop"
      [] op = "Fchdir" -> "Fchdir_chdir"

\* Lines 48-54, after the Lock of line 48: the lookup, the Unlock, and
\* EBADF for a descriptor the table does not hold.
Lookup(t) ==
    /\ At(t, "fdToFile")
    /\ LET cur == th[t]
           got == fdToFile(files, cur.fd)
       IN  IF got.err # Nil
           THEN th' = [th EXCEPT ![t] = Return(cur, 0, got.err)] /\ Goto(t, "done")
           ELSE th' = [th EXCEPT ![t] = [cur EXCEPT !.f = got.f]] /\ Goto(t, AfterLookup(cur.op))
    /\ Unlock(t)
    /\ UNCHANGED <<files, heap>> /\ HostSame /\ HistSame

(* --------------------------- Read and Write --------------------------- *)

\* History: a Write that follows a successful Seek(fd, p, start) on the
\* same descriptor continues the sequence; any other operation ends it.
WriteStarts(fd) ==
    IF seekWrite.stage = "seeked" /\ seekWrite.fd = fd THEN seekWrite ELSE Interrupts(fd)
WriteEnds(cur, n, err) ==
    IF seekWrite.stage = "seeked" /\ seekWrite.fd = cur.fd
    THEN IF err = Nil THEN [seekWrite EXCEPT !.stage = "written", !.n = n, !.len = cur.len]
         ELSE NoSeekWrite
    ELSE seekWrite
TransferEnds(cur, n, err) ==
    IF cur.op = "Write" THEN WriteEnds(cur, n, err) ELSE seekWrite

\* Lines 365-366 and 386-387: Read(fd, b) and Write(fd, b) start with fdToFile.
TransferCall(t, op) ==
    /\ Ready(t)
    /\ \E fd \in InFds, len \in IOLens :
        /\ Begin(t, [Fresh EXCEPT !.op = op, !.fd = fd, !.len = len])
        /\ Lock(t)
        /\ Goto(t, "fdToFile")
        /\ seekWrite' = IF op = "Write" THEN WriteStarts(fd) ELSE Interrupts(fd)
        /\ UNCHANGED <<files, heap, closedBy, openedBy>> /\ HostSame

\* A transfer that always goes to the host's cursor, positioned or not.
TransferIOAtCursor(t, op, name) ==
    /\ At(t, op \o "_io")
    /\ LET cur == th[t]
           rec == heap[cur.f]
       IN  \E o \in jsTransfer(hostOpen, cur.fd, cur.len, rec.pos) :
             LET r == fsCall(o)
                 log == Logged(cur, HostCall(name, cur.fd, EmptyPath, FALSE, 0, o))
             IN  IF r.panic
                 THEN Panic(t) /\ th' = [th EXCEPT ![t] = Panicked(log, r)] /\ UNCHANGED <<heap, seekWrite>>
                 ELSE IF r.err # Nil /\ ~rec.seeked
                 THEN /\ th' = [th EXCEPT ![t] = Return(log, 0, r.err)]
                      /\ heap' = Collect(heap, files, th')
                      /\ seekWrite' = TransferEnds(cur, 0, r.err)
                      /\ Goto(t, "done")
                 ELSE /\ th' = [th EXCEPT ![t] = [log EXCEPT !.n = r.val, !.err = r.err,
                                                               !.explicit = rec.seeked]]
                      /\ Goto(t, op \o "_load")
                      /\ UNCHANGED <<heap, seekWrite>>
    /\ UNCHANGED <<files, filesMu, closedBy, openedBy>> /\ HostSame

\* Lines 371-372, 377-381 (392-393, 398-402): with f.seeked the host call
\* carries f.pos as its offset (Pread/Pwrite), otherwise it carries none;
\* the unpositioned call returns at once on an error.
TransferIO(t, op, name) ==
    /\ At(t, op \o "_io")
    /\ LET cur == th[t]
           rec == heap[cur.f]
       IN  \E o \in jsTransfer(hostOpen, cur.fd, cur.len, rec.pos) :
             LET r == fsCall(o)
                 log == Logged(cur, HostCall(name, cur.fd, EmptyPath, rec.seeked,
                                             IF rec.seeked THEN rec.pos ELSE 0, o))
             IN  IF r.panic
                 THEN Panic(t) /\ th' = [th EXCEPT ![t] = Panicked(log, r)] /\ UNCHANGED <<heap, seekWrite>>
                 ELSE IF r.err # Nil /\ ~rec.seeked
                 THEN /\ th' = [th EXCEPT ![t] = Return(log, 0, r.err)]
                      /\ heap' = Collect(heap, files, th')
                      /\ seekWrite' = TransferEnds(cur, 0, r.err)
                      /\ Goto(t, "done")
                 ELSE /\ th' = [th EXCEPT ![t] = [log EXCEPT !.n = r.val, !.err = r.err,
                                                               !.explicit = rec.seeked]]
                      /\ Goto(t, op \o "_load")
                      /\ UNCHANGED <<heap, seekWrite>>
    /\ UNCHANGED <<files, filesMu, closedBy, openedBy>> /\ HostSame

\* A position that does not move with the bytes transferred.
AdvanceNot(pos, n) == pos

\* f.pos += int64(n), lines 373, 382, 394, 403.
Advance(pos, n) == WrapInt(pos + n)

\* f.pos += int64(n): the load ...
TransferLoad(t, op) ==
    /\ At(t, op \o "_load")
    /\ th' = [th EXCEPT ![t].tmp = heap[th[t].f].pos]
    /\ Goto(t, op \o "_store")
    /\ TableSame /\ HostSame /\ HistSame

\* A store that puts the record back to following the host's cursor.
TransferStoreUnseeked(t, op) ==
    /\ At(t, op \o "_store")
    /\ LET cur == th[t]
           h == [heap EXCEPT ![cur.f].pos = Advance(cur.tmp, cur.n), ![cur.f].seeked = FALSE]
       IN  /\ th' = [th EXCEPT ![t] = Return(cur, cur.n, cur.err)]
           /\ heap' = Collect(h, files, th')
           /\ seekWrite' = TransferEnds(cur, cur.n, cur.err)
    /\ Goto(t, "done")
    /\ UNCHANGED <<files, filesMu, closedBy, openedBy>> /\ HostSame

\* ... and the store, then the return of (n, err).
TransferStore(t, op) ==
    /\ At(t, op \o "_store")
    /\ LET cur == th[t]
           h == [heap EXCEPT ![cur.f].pos = Advance(cur.tmp, cur.n)]
       IN  /\ th' = [th EXCEPT ![t] = Return(cur, cur.n, cur.err)]
           /\ heap' = Collect(h, files, th')
           /\ seekWrite' = TransferEnds(cur, cur.n, cur.err)
    /\ Goto(t, "done")
    /\ UNCHANGED <<files, filesMu, closedBy, openedBy>> /\ HostSame

Read(t) == TransferCall(t, "Read")
Read_io(t) == TransferIO(t, "Read", "readSync")
Read_load(t) == TransferLoad(t, "Read")
Read_store(t) == TransferStore(t, "Read")
Write(t) == TransferCall(t, "Write")
Write_io(t) == TransferIO(t, "Write", "writeSync")
Write_load(t) == TransferLoad(t, "Write")
Write_store(t) == TransferStore(t, "Write")

\* A positioned call that moves the record's position by what it transferred.
PositionedCallMoving(t, op, name) ==
    /\ Ready(t)
    /\ \E fd \in InFds, len \in IOLens, off \in {0, 1} :
      \E o \in jsTransfer(hostOpen, fd, len, off) :
        LET r == fsCall(o)
            call == Logged([Fresh EXCEPT !.op = op, !.fd = fd, !.len = len, !.off = off],
                           HostCall(name, fd, EmptyPath, TRUE, off, o))
        IN  /\ IF r.panic THEN Begin(t, Panicked(call, r)) /\ Panic(t)
               ELSE Begin(t, Return(call, r.val, r.err)) /\ Goto(t, "done")
            /\ heap' = IF fd \in DOMAIN files /\ ~r.panic
                       THEN [heap EXCEPT ![files[fd]].pos = Advance(@, r.val)]
                       ELSE heap
            /\ seekWrite' = Interrupts(fd)
            /\ UNCHANGED <<files, filesMu>> /\ HostSame /\ UNCHANGED <<closedBy, openedBy>>

\* Lines 407-421: Pread and Pwrite go straight to the host with the offset
\* they are given; the table is not consulted.
PositionedCall(t, op, name) ==
    /\ Ready(t)
    /\ \E fd \in InFds, len \in IOLens, off \in {0, 1} :
      \E o \in jsTransfer(hostOpen, fd, len, off) :
        LET r == fsCall(o)
            call == Logged([Fresh EXCEPT !.op = op, !.fd = fd, !.len = len, !.off = off],
                           HostCall(name, fd, EmptyPath, TRUE, off, o))
        IN  /\ IF r.panic THEN Begin(t, Panicked(call, r)) /\ Panic(t)
               ELSE Begin(t, Return(call, r.val, r.err)) /\ Goto(t, "done")
            /\ seekWrite' = Interrupts(fd)
            /\ TableSame /\ HostSame /\ UNCHANGED <<closedBy, openedBy>>

Pread(t) == PositionedCall(t, "Pread", "readSync")
Pwrite(t) == PositionedCall(t, "Pwrite", "writeSync")

(* -------------------------------- Seek -------------------------------- *)

\* Lines 430-440: the target of a Seek with one of the three whences; size
\* is st.Size (SeekEnd only).
SeekTarget(whence, offset, pos, size) ==
    CASE whence = SeekStart -> offset
      [] whence = SeekCurrent -> WrapInt(pos + offset)
      [] whence = SeekEnd -> WrapInt(size + offset)

\* History: Seek(fd, 0, current) right after the Write continues the
\* sequence; a successful Seek(fd, p, start) starts one.
SeekStarts(fd, off, whence) ==
    IF seekWrite.stage = "written" /\ seekWrite.fd = fd /\ whence = SeekCurrent /\ off = 0
    THEN seekWrite ELSE Interrupts(fd)
SeekEnds(cur) ==
    IF cur.whence = SeekStart
    THEN [stage |-> "seeked", fd |-> cur.fd, p |-> cur.newPos, n |-> 0, len |-> 0]
    ELSE seekWrite

\* Lines 423-424.
Seek(t) ==
    /\ Ready(t)
    /\ \E fd \in InFds, off \in Offsets, whence \in Whences :
        /\ Begin(t, [Fresh EXCEPT !.op = "Seek", !.fd = fd, !.off = off, !.whence = whence])
        /\ Lock(t)
        /\ Goto(t, "fdToFile")
        /\ seekWrite' = SeekStarts(fd, off, whence)
        /\ UNCHANGED <<files, heap, closedBy, openedBy>> /\ HostSame

\* Lines 429-443: the switch on whence.  SeekEnd asks the host for the size
\* first (Fstat, line 437); another whence than the three is EINVAL.
Seek_newPos(t) ==
    /\ At(t, "Seek_newPos")
    /\ LET cur == th[t]
           rec == heap[cur.f]
       IN  IF cur.whence = SeekEnd
           THEN \E o \in jsFstatSync(hostOpen, hostPath, cur.fd) :
                  LET r == fsCall(o)
                      log == Logged(cur, HostCall("fstatSync", cur.fd, EmptyPath, FALSE, 0, o))
                  IN  IF r.panic THEN Panic(t) /\ th' = [th EXCEPT ![t] = Panicked(log, r)]
                      ELSE IF r.err # Nil
                      THEN th' = [th EXCEPT ![t] = Return(log, 0, r.err)] /\ Goto(t, "done")
                      ELSE /\ th' = [th EXCEPT ![t] = [log EXCEPT
                                   !.size = r.val.size,
                                   !.newPos = SeekTarget(cur.whence, cur.off, rec.pos, r.val.size)]]
                           /\ Goto(t, "Seek_seeked")
           ELSE IF cur.whence \notin {SeekStart, SeekCurrent}
           THEN th' = [th EXCEPT ![t] = Return(cur, 0, EINVAL)] /\ Goto(t, "done")
           ELSE /\ th' = [th EXCEPT ![t] = [cur EXCEPT
                        !.newPos = SeekTarget(cur.whence, cur.off, rec.pos, 0)]]
                /\ Goto(t, "Seek_seeked")
    /\ heap' = Collect(heap, files, th')
    /\ UNCHANGED <<files, filesMu>> /\ HostSame /\ HistSame

\* A Seek that marks the record positioned before it checks the target.
Seek_seekedFirst(t) ==
    /\ At(t, "Seek_seeked")
    /\ LET cur == th[t]
           h == [heap EXCEPT ![cur.f].seeked = TRUE]
       IN  IF cur.newPos < 0
           THEN /\ th' = [th EXCEPT ![t] = Return(cur, 0, EINVAL)]
                /\ heap' = Collect(h, files, th')
                /\ Goto(t, "done")
           ELSE /\ heap' = h
                /\ Goto(t, "Seek_pos")
                /\ UNCHANGED th
    /\ UNCHANGED <<files, filesMu>> /\ HostSame /\ HistSame

\* Lines 445-449: a negative target is EINVAL; otherwise f.seeked = true.
Seek_seeked(t) ==
    /\ At(t, "Seek_seeked")
    /\ LET cur == th[t]
       IN  IF cur.newPos < 0
           THEN /\ th' = [th EXCEPT ![t] = Return(cur, 0, EINVAL)]
                /\ heap' = Collect(heap, files, th')
                /\ Goto(t, "done")
           ELSE /\ heap' = [heap EXCEPT ![cur.f].seeked = TRUE]
                /\ Goto(t, "Seek_pos")
                /\ UNCHANGED th
    /\ UNCHANGED <<files, filesMu>> /\ HostSame /\ HistSame

\* Lines 450-451: f.pos = newPos; return newPos, nil.
Seek_pos(t) ==
    /\ At(t, "Seek_pos")
    /\ LET cur == th[t]
           h == [heap EXCEPT ![cur.f].pos = cur.newPos]
       IN  /\ th' = [th EXCEPT ![t] = Return(cur, cur.newPos, Nil)]
           /\ heap' = Collect(h, files, th')
           /\ seekWrite' = SeekEnds(cur)
    /\ Goto(t, "done")
    /\ UNCHANGED <<files, filesMu, closedBy, openedBy>> /\ HostSame

(* ----------------------------- ReadDirent ----------------------------- *)

\* A record with the high byte of its length first.
DirentRecordHighFirst(entry) ==
    LET l == 2 + Len(entry) IN <<(l \div 256) % 256, l % 256>> \o entry

\* Lines 148, 152-154: one record: the total length in two bytes, low byte
\* first, then the name.
DirentRecord(entry) ==
    LET l == 2 + Len(entry) IN <<l % 256, (l \div 256) % 256>> \o entry

\* Line 149: the next entry goes into what is left of the buffer only whole.
Fits(entry, room) == ~(2 + Len(entry) > room)

\* Lines 136-137.
ReadDirent(t) ==
    /\ Ready(t)
    /\ \E fd \in InFds, cap \in Caps :
        /\ Begin(t, [Fresh EXCEPT !.op = "ReadDirent", !.fd = fd, !.len = cap])
        /\ Lock(t)
        /\ Goto(t, "fdToFile")
        /\ seekWrite' = Interrupts(fd)
        /\ UNCHANGED <<files, heap, closedBy, openedBy>> /\ HostSame

\* Lines 141-160: EINVAL without a queue; otherwise one turn of the loop:
\* the first pending entry moves into the buffer, or the call returns n.
ReadDirent_loop(t) ==
    /\ At(t, "ReadDirent_loop")
    /\ LET cur == th[t]
           rec == heap[cur.f]
       IN  IF rec.entriesNil
           THEN /\ th' = [th EXCEPT ![t] = Return(cur, 0, EINVAL)]
                /\ heap' = Collect(heap, files, th') /\ Goto(t, "done")
           ELSE IF Len(rec.entries) = 0 \/ ~Fits(Head(rec.entries), cur.len - cur.n)
           THEN /\ th' = [th EXCEPT ![t] = Return(cur, cur.n, Nil)]
                /\ heap' = Collect(heap, files, th') /\ Goto(t, "done")
           ELSE LET r == DirentRecord(Head(rec.entries))
                IN  /\ th' = [th EXCEPT ![t].out = @ \o r, ![t].n = @ + Len(r)]
                    /\ heap' = [heap EXCEPT ![cur.f].entries = Tail(@),
                                            ![cur.f].delivered = @ \o r]
                    /\ Goto(t, "ReadDirent_loop")
    /\ UNCHANGED <<files, filesMu>> /\ HostSame /\ HistSame

(* ------------------- operations that pass through -------------------- *)

\* Lines 318-319.
Fchdir(t) ==
    /\ Ready(t)
    /\ \E fd \in InFds :
        /\ Begin(t, [Fresh EXCEPT !.op = "Fchdir", !.fd = fd])
        /\ Lock(t)
        /\ Goto(t, "fdToFile")
        /\ seekWrite' = Interrupts(fd)
        /\ UNCHANGED <<files, heap, closedBy, openedBy>> /\ HostSame

\* Line 323: Chdir(f.path).
Fchdir_chdir(t) ==
    /\ At(t, "Fchdir_chdir")
    /\ LET cur == th[t]
           path == heap[cur.f].path
       IN  IF checkPath(path) # Nil
           THEN th' = [th EXCEPT ![t] = Return(cur, 0, checkPath(path))] /\ Goto(t, "done")
           ELSE \E o \in jsPathCall :
                  LET r == fsCall(o)
                      log == Logged(cur, HostCall("chdir", 0, path, FALSE, 0, o))
                  IN  IF r.panic THEN Panic(t) /\ th' = [th EXCEPT ![t] = Panicked(log, r)]
                      ELSE th' = [th EXCEPT ![t] = Return(log, 0, r.err)] /\ Goto(t, "done")
    /\ heap' = Collect(heap, files, th')
    /\ UNCHANGED <<files, filesMu>> /\ HostSame /\ HistSame

\* Lines 209-216, 242-245, 297-300, 360-363: Fstat, Fchmod, Ftruncate and
\* Fsync hand the descriptor to the host; the table is not consulted.
FdCall(t, op, name) ==
    /\ Ready(t)
    /\ \E fd \in InFds :
      \E o \in (IF op = "Fstat" THEN jsFstatSync(hostOpen, hostPath, fd)
                ELSE jsFdCall(hostOpen, fd)) :
        LET r == fsCall(o)
            call == Logged([Fresh EXCEPT !.op = op, !.fd = fd],
                           HostCall(name, fd, EmptyPath, FALSE, 0, o))
        IN  /\ IF r.panic THEN Begin(t, Panicked(call, r)) /\ Panic(t)
               ELSE Begin(t, Return(call, 0, r.err)) /\ Goto(t, "done")
            /\ seekWrite' = Interrupts(fd)
            /\ TableSame /\ HostSame /\ UNCHANGED <<closedBy, openedBy>>

Fstat(t) == FdCall(t, "Fstat", "fstatSync")
Fchmod(t) == FdCall(t, "Fchmod", "fchmodSync")
Ftruncate(t) == FdCall(t, "Ftruncate", "ftruncateSync")
Fsync(t) == FdCall(t, "Fsync", "fsyncSync")

\* Lines 128-134, 185-207, 218-240, 289-295, 309-316, 326-336: one path,
\* checked by checkPath, then handed to the host.
PathCall(t, op, name) ==
    /\ Ready(t)
    /\ \E path \in Paths :
        LET call == [Fresh EXCEPT !.op = op, !.path = path] IN
        /\ IF checkPath(path) # Nil
           THEN Begin(t, Return(call, 0, checkPath(path))) /\ Goto(t, "done")
           ELSE \E o \in jsPathCall :
                  LET r == fsCall(o)
                      log == Logged(call, HostCall(name, 0, path, FALSE, 0, o))
                  IN  IF r.panic THEN Begin(t, Panicked(log, r)) /\ Panic(t)
                      ELSE Begin(t, Return(log, 0, r.err)) /\ Goto(t, "done")
        /\ TableSame /\ HostSame /\ HistSame

Mkdir(t) == PathCall(t, "Mkdir", "mkdirSync")
Stat(t) == PathCall(t, "Stat", "statSync")
Lstat(t) == PathCall(t, "Lstat", "lstatSync")
Unlink(t) == PathCall(t, "Unlink", "unlinkSync")
Rmdir(t) == PathCall(t, "Rmdir", "rmdirSync")
Chmod(t) == PathCall(t, "Chmod", "chmodSync")
Truncate(t) == PathCall(t, "Truncate", "truncateSync")
Chdir(t) == PathCall(t, "Chdir", "chdir")
Readlink(t) == PathCall(t, "Readlink", "readlinkSync")

\* Lines 278-287, 338-358: two paths, each checked, then the host.
TwoPathCall(t, op, name) ==
    /\ Ready(t)
    /\ \E path \in Paths, path2 \in Paths :
        LET call == [Fresh EXCEPT !.op = op, !.path = path, !.path2 = path2] IN
        /\ IF checkPath(path) # Nil
           THEN Begin(t, Return(call, 0, checkPath(path))) /\ Goto(t, "done")
           ELSE IF checkPath(path2) # Nil
           THEN Begin(t, Return(call, 0, checkPath(path2))) /\ Goto(t, "done")
           ELSE \E o \in jsPathCall :
                  LET r == fsCall(o)
                      log == Logged(call, HostCall(name, 0, path, FALSE, 0, o))
                  IN  IF r.panic THEN Begin(t, Panicked(log, r)) /\ Panic(t)
                      ELSE Begin(t, Return(log, 0, r.err)) /\ Goto(t, "done")
        /\ TableSame /\ HostSame /\ HistSame

Rename(t) == TwoPathCall(t, "Rename", "renameSync")
Link(t) == TwoPathCall(t, "Link", "linkSync")
Symlink(t) == TwoPathCall(t, "Symlink", "symlinkSync")

\* Lines 265-276: the path, then the length of ts, then the host.
UtimesNano(t) ==
    /\ Ready(t)
    /\ \E path \in Paths, tslen \in TsLens :
        LET call == [Fresh EXCEPT !.op = "UtimesNano", !.path = path, !.len = tslen] IN
        /\ IF checkPath(path) # Nil
           THEN Begin(t, Return(call, 0, checkPath(path))) /\ Goto(t, "done")
           ELSE IF tslen # 2
           THEN Begin(t, Return(call, 0, EINVAL)) /\ Goto(t, "done")
           ELSE \E o \in jsPathCall :
                  LET r == fsCall(o)
                      log == Logged(call, HostCall("utimesSync", 0, path, FALSE, 0, o))
                  IN  IF r.panic THEN Begin(t, Panicked(log, r)) /\ Panic(t)
                      ELSE Begin(t, Return(log, 0, r.err)) /\ Goto(t, "done")
        /\ TableSame /\ HostSame /\ HistSame

\* A Chown that reports success for a well-formed path.
ChownResultDone(path) == checkPath(path)

\* Lines 247-252, 258-263: Chown and Lchown check the path, then ENOSYS.
ChownResult(path) == IF checkPath(path) # Nil THEN checkPath(path) ELSE ENOSYS

PathChown(t, op) ==
    /\ Ready(t)
    /\ \E path \in Paths :
        /\ Begin(t, Return([Fresh EXCEPT !.op = op, !.path = path], 0, ChownResult(path)))
        /\ Goto(t, "done")
        /\ TableSame /\ HostSame /\ HistSame

Chown(t) == PathChown(t, "Chown")
Lchown(t) == PathChown(t, "Lchown")

\* Lines 254-256.
Fchown(t) ==
    /\ Ready(t)
    /\ \E fd \in InFds :
        /\ Begin(t, Return([Fresh EXCEPT !.op = "Fchown", !.fd = fd], 0, ENOSYS))
        /\ Goto(t, "done")
        /\ TableSame /\ HostSame /\ HistSame

(* --------------------------- specifications --------------------------- *)

\* The operations on descriptors.
FdStep(t) ==
    \/ Open(t) \/ Open_openSync(t) \/ Open_fstatSync(t) \/ Open_readdirSync(t)
    \/ Open_lock(t) \/ Open_insert(t)
    \/ Close(t) \/ Close_delete(t) \/ Close_closeSync(t)
    \/ Lookup(t)
    \/ Read(t) \/ Read_io(t) \/ Read_load(t) \/ Read_store(t)
    \/ Write(t) \/ Write_io(t) \/ Write_load(t) \/ Write_store(t)
    \/ Pread(t) \/ Pwrite(t)
    \/ Seek(t) \/ Seek_newPos(t) \/ Seek_seeked(t) \/ Seek_pos(t)
    \/ ReadDirent(t) \/ ReadDirent_loop(t)
    \/ Fchdir(t) \/ Fchdir_chdir(t)
    \/ Fstat(t) \/ Fchmod(t) \/ Ftruncate(t) \/ Fsync(t)
    \/ Resume(t)

\* One thread, the operations on descriptors one after another.
Next == \E t \in SeqThreads : FdStep(t)
Spec == Init /\ [][Next]_vars

\* The operations on paths, with those that change the table or a record.
PathStep(t) ==
    \/ Open(t) \/ Open_openSync(t) \/ Open_fstatSync(t) \/ Open_readdirSync(t)
    \/ Open_lock(t) \/ Open_insert(t)
    \/ Close(t) \/ Close_delete(t) \/ Close_closeSync(t)
    \/ Lookup(t)
    \/ Seek(t) \/ Seek_newPos(t) \/ Seek_seeked(t) \/ Seek_pos(t)
    \/ Mkdir(t) \/ Stat(t) \/ Lstat(t) \/ Unlink(t) \/ Rmdir(t) \/ Chmod(t)
    \/ Truncate(t) \/ Chdir(t) \/ Readlink(t)
    \/ Rename(t) \/ Link(t) \/ Symlink(t)
    \/ UtimesNano(t)
    \/ Chown(t) \/ Lchown(t) \/ Fchown(t)
    \/ Resume(t)

PathNext == \E t \in SeqThreads : PathStep(t)
PathSpec == Init /\ [][PathNext]_vars

\* Two threads, each opening, closing and writing descriptors, their steps
\* interleaved.
ConcStep(t) ==
    \/ Open(t) \/ Open_openSync(t) \/ Open_fstatSync(t) \/ Open_readdirSync(t)
    \/ Open_lock(t) \/ Open_insert(t)
    \/ Close(t) \/ Close_delete(t) \/ Close_closeSync(t)
    \/ Lookup(t)
    \/ Write(t) \/ Write_io(t) \/ Write_load(t) \/ Write_store(t)
    \/ Resume(t)

ConcNext == \E t \in Threads : ConcStep(t)
ConcSpec == Init /\ [][ConcNext]_vars

\* One thread, every operation.
AllStep(t) ==
    \/ FdStep(t)
    \/ Mkdir(t) \/ Stat(t) \/ Lstat(t) \/ Unlink(t) \/ Rmdir(t) \/ Chmod(t)
    \/ Truncate(t) \/ Chdir(t) \/ Readlink(t)
    \/ Rename(t) \/ Link(t) \/ Symlink(t)
    \/ UtimesNano(t)
    \/ Chown(t) \/ Lchown(t) \/ Fchown(t)

AllNext == \E t \in SeqThreads : AllStep(t)
AllSpec == Init /\ [][AllNext]_vars

\* One thread that opens files, in every open mode.
FlagStep(t) ==
    \/ OpenAnyMode(t) \/ Open_openSync(t) \/ Open_fstatSync(t) \/ Open_readdirSync(t)
    \/ Open_lock(t) \/ Open_insert(t)
    \/ Resume(t)

FlagNext == \E t \in SeqThreads : FlagStep(t)
FlagSpec == Init /\ [][FlagNext]_vars


(* ------------------------------ claims -------------------------------- *)

\* Thread t has returned from operation op; th[t] holds its arguments, its
\* result, the host calls it made and the table and records it started from.
Returned(t, op) == pc[t] = "done" /\ th[t].op = op

\* The errno a raised value stands for, as the caller must see it.
Translated(x) == IF x = NoThrown THEN Nil ELSE errnoByCode[x.code]

\* C1: when Close(fd) returns, the table has no entry for fd whether or not
\* the host's closeSync succeeded, and Close returns the error the host's
\* closeSync reported, translated, or nil when it reported none.
C1_CloseRemovesEntry ==
    \A t \in Threads :
        Returned(t, "Close") =>
            /\ th[t].fd \notin DOMAIN files
            /\ Len(th[t].calls) = 1
            /\ th[t].calls[1].name = "closeSync"
            /\ th[t].calls[1].fd = th[t].fd
            /\ th[t].err = Translated(th[t].calls[1].thrown)

\* A Close of a descriptor the table held, whose host release failed.
C1_Witness ==
    \E t \in Threads :
        /\ Returned(t, "Close")
        /\ th[t].fd \in DOMAIN th[t].pre.files
        /\ th[t].err = "EIO"
        /\ th[t].fd \in hostOpen

LookupOps == {"Read", "Write", "Seek", "ReadDirent", "Fchdir"}
BypassOps == {"Pread", "Pwrite", "Fstat", "Fsync", "Fchmod", "Ftruncate"}

\* The descriptor number was passed to a Close that has returned, and no
\* Open has returned it since.
Closed(fd) == closedBy[fd] \in {"ok", "failed"}

\* C2 as stated: after Close(fd), until an Open returns the number again,
\* each of the eleven descriptor operations fails with the table's EBADF
\* and makes no host call.
C2_Original ==
    \A t \in Threads, op \in LookupOps \cup BypassOps :
        (Returned(t, op) /\ Closed(th[t].fd)) =>
            th[t].err = EBADF /\ th[t].calls = << >>

\* C2, amended: after Close(fd), until an Open returns the number again,
\* Read, Write, Seek, ReadDirent and Fchdir fail with the table's EBADF and
\* make no host call; Pread, Pwrite, Fstat, Fsync, Fchmod and Ftruncate do
\* not consult the table: each makes its one host call on that number and
\* returns what the host reports.
C2_ClosedDescriptor ==
    /\ \A t \in Threads, op \in LookupOps :
        (Returned(t, op) /\ Closed(th[t].fd)) =>
            th[t].err = EBADF /\ th[t].ret = 0 /\ th[t].calls = << >>
    /\ \A t \in Threads, op \in BypassOps :
        (Returned(t, op) /\ Closed(th[t].fd)) =>
            /\ Len(th[t].calls) = 1
            /\ th[t].calls[1].fd = th[t].fd
            /\ th[t].err = Translated(th[t].calls[1].thrown)

\* A Read of a descriptor whose Close failed in the host, refused by the table.
C2_Witness ==
    \E t \in Threads :
        /\ Returned(t, "Read")
        /\ closedBy[th[t].fd] = "failed"
        /\ th[t].fd \in hostOpen
        /\ th[t].err = EBADF

StdFds == {0, 1, 2}

\* C3 as stated: the table holds entries for 0, 1 and 2 in every state.
C3_Original == StdFds \subseteq DOMAIN files

\* C3, amended: the table holds the entries for 0, 1 and 2 from the start,
\* and each stays until Close is called with that number: Close removes a
\* standard stream's record like any other, and nothing else removes it.
C3_StdStreamsUntilClosed ==
    \A fd \in StdFds : closedBy[fd] = "no" => fd \in DOMAIN files

\* A Close of another descriptor has returned and the three are still there.
C3_Witness ==
    \E t \in Threads :
        /\ Returned(t, "Close")
        /\ th[t].fd \notin StdFds
        /\ th[t].fd \in DOMAIN th[t].pre.files
        /\ StdFds \subseteq DOMAIN files

C5_SeekWriteSeek ==
    \A t \in Threads :
        ( /\ Returned(t, "Seek")
          /\ th[t].whence = SeekCurrent /\ th[t].off = 0
          /\ seekWrite.stage = "written" /\ seekWrite.fd = th[t].fd
          /\ seekWrite.n = seekWrite.len )
        => th[t].err = Nil /\ th[t].ret = seekWrite.p + seekWrite.len

\* The sequence ran with p > 0 and N > 0.
C5_Witness ==
    \E t \in Threads :
        /\ Returned(t, "Seek")
        /\ th[t].whence = SeekCurrent /\ th[t].off = 0
        /\ seekWrite.stage = "written" /\ seekWrite.fd = th[t].fd
        /\ seekWrite.n = seekWrite.len
        /\ seekWrite.p > 0 /\ seekWrite.len > 0
        /\ th[t].ret = seekWrite.p + seekWrite.len

\* The record the table held for the descriptor when the operation started.
PreRec(t) == th[t].pre.heap[th[t].pre.files[th[t].fd]]
Known(t) == th[t].fd \in DOMAIN th[t].pre.files

\* C6: a Seek that returns an error leaves the record's position and
\* seeked flag (and the table) as they were; Seek with whence = current and
\* position + offset negative returns EINVAL.
C6_FailedSeekChangesNothing ==
    \A t \in Threads :
        /\ (Returned(t, "Seek") /\ th[t].err # Nil) =>
              /\ files = th[t].pre.files
              /\ Known(t) => /\ heap[files[th[t].fd]].pos = PreRec(t).pos
                             /\ heap[files[th[t].fd]].seeked = PreRec(t).seeked
              /\ ~Known(t) => th[t].err = EBADF
        /\ ( /\ Returned(t, "Seek") /\ Known(t)
             /\ th[t].whence = SeekCurrent
             /\ PreRec(t).pos + th[t].off < 0 )
           => th[t].err = EINVAL

\* Seek(current) with a negative target on a record whose position is not 0
\* and which had not been positioned: EINVAL, nothing changed.
C6_Witness ==
    \E t \in Threads :
        /\ Returned(t, "Seek") /\ Known(t)
        /\ th[t].whence = SeekCurrent
        /\ th[t].err = EINVAL
        /\ PreRec(t).pos > 0 /\ ~PreRec(t).seeked
        /\ heap[files[th[t].fd]].pos = PreRec(t).pos
        /\ ~heap[files[th[t].fd]].seeked

\* One record of the directory-entry wire format: the length of the whole
\* record in two bytes, low byte first, then the name.
WireRecord(name) == <<(2 + Len(name)) % 256, (2 + Len(name)) \div 256>> \o name
RECURSIVE WireRecords(_)
WireRecords(names) ==
    IF names = << >> THEN << >> ELSE WireRecord(Head(names)) \o WireRecords(Tail(names))

\* C7: for a record with a captured listing E, the bytes all ReadDirent
\* calls have written are the records of a prefix of E, whole and in order,
\* and the queue is the rest of E; each call appends what it wrote and
\* returns its length; with the queue empty a call returns 0 and no error
\* and the queue stays empty.
C7_DirentsInOrderOnce ==
    /\ \A r \in DOMAIN heap :
        ~heap[r].entriesNil =>
            LET E == heap[r].listing
                k == Len(E) - Len(heap[r].entries)
            IN  /\ k >= 0
                /\ heap[r].entries = SubSeq(E, k + 1, Len(E))
                /\ heap[r].delivered = WireRecords(SubSeq(E, 1, k))
    /\ \A t \in Threads :
        (Returned(t, "ReadDirent") /\ Known(t) /\ ~PreRec(t).entriesNil) =>
            /\ th[t].err = Nil
            /\ files = th[t].pre.files
            /\ heap[files[th[t].fd]].delivered = PreRec(t).delivered \o th[t].out
            /\ th[t].ret = Len(th[t].out)
            /\ th[t].ret <= th[t].len
            /\ PreRec(t).entries = << >> =>
                   th[t].ret = 0 /\ heap[files[th[t].fd]].entries = << >>

\* The spec's example: of three entries one was read before, and this call
\* read the other two.
C7_Witness ==
    \E t \in Threads :
        /\ Returned(t, "ReadDirent") /\ Known(t)
        /\ Len(PreRec(t).listing) = 3
        /\ Len(PreRec(t).entries) = 2
        /\ heap[files[th[t].fd]].entries = << >>
        /\ th[t].ret = Len(WireRecords(PreRec(t).entries))

\* C8: ReadDirent returns (0, nil) only with the descriptor's queue exhausted.
C8_ZeroMeansExhausted ==
    \A t \in Threads :
        (Returned(t, "ReadDirent") /\ Known(t) /\ th[t].err = Nil /\ th[t].ret = 0)
        => heap[files[th[t].fd]].entries = << >>

BadPath(path) == path = << >> \/ \E i \in 1 .. Len(path) : path[i] = NUL

\* C9 as stated: Chown, Fchown and Lchown return ENOSYS whatever their
\* arguments, and call the host never.
C9_Original ==
    \A t \in Threads, op \in {"Chown", "Fchown", "Lchown"} :
        Returned(t, op) => th[t].err = ENOSYS /\ th[t].calls = << >>

\* C9, amended: Fchown returns ENOSYS whatever its arguments; Chown and
\* Lchown return ENOSYS for every path that is non-empty and holds no zero
\* byte, and EINVAL for the others; none of the three calls the host.
C9_ChownNotSupported ==
    /\ \A t \in Threads :
        Returned(t, "Fchown") => th[t].err = ENOSYS /\ th[t].calls = << >>
    /\ \A t \in Threads, op \in {"Chown", "Lchown"} :
        Returned(t, op) =>
            /\ th[t].err = IF BadPath(th[t].path) THEN EINVAL ELSE ENOSYS
            /\ th[t].calls = << >>

\* Lchown on a path with a zero byte: EINVAL.
C9_Witness ==
    \E t \in Threads :
        /\ Returned(t, "Lchown")
        /\ th[t].path # << >> /\ BadPath(th[t].path)
        /\ th[t].err = EINVAL


OnePathOps ==
    {"Open", "Mkdir", "Stat", "Lstat", "Unlink", "Rmdir", "Chmod", "Truncate",
     "Chdir", "Readlink", "UtimesNano", "Chown", "Lchown"}
TwoPathOps == {"Rename", "Link", "Symlink"}

\* A call with a malformed path, or UtimesNano with other than two timestamps.
MalformedPathCall(t) ==
    \/ th[t].op \in OnePathOps /\ BadPath(th[t].path)
    \/ th[t].op \in TwoPathOps /\ (BadPath(th[t].path) \/ BadPath(th[t].path2))
    \/ th[t].op = "UtimesNano" /\ th[t].len # 2

\* A sum the int64 arithmetic turns negative.
Negative(x) == x < 0 \/ x > MaxInt

\* A Seek on a descriptor the table holds with a whence that is none of the
\* three, or with a target that is negative (for whence end: negative
\* whatever the size of the file).
MalformedSeek(t) ==
    /\ th[t].op = "Seek" /\ Known(t)
    /\ \/ th[t].whence \notin {SeekStart, SeekCurrent, SeekEnd}
       \/ th[t].whence = SeekStart /\ th[t].off < 0
       \/ th[t].whence = SeekCurrent /\ Negative(PreRec(t).pos + th[t].off)
       \/ th[t].whence = SeekEnd /\ th[t].off + MaxInt < 0

Untouched(t) == files = th[t].pre.files /\ heap = th[t].pre.heap

\* C10 as stated: every malformed request returns EINVAL, makes no host
\* call at any point, and leaves the descriptor table as it was.
C10_Original ==
    \A t \in Threads :
        (pc[t] = "done" /\ (MalformedPathCall(t) \/ MalformedSeek(t))) =>
            th[t].err = EINVAL /\ th[t].calls = << >> /\ Untouched(t)

\* C10, amended: a malformed path (empty, or with a zero byte) in a
\* path-taking operation, a timestamp array of another length than 2 in
\* UtimesNano, and a Seek with an unknown whence or with a negative target
\* for whence start or current return EINVAL with no host call.  A Seek
\* with whence end first makes the host's fstatSync call, and then returns
\* that call's error if it failed and EINVAL if the target is negative.
\* In all these cases the table and the records are unchanged.
C10_MalformedRejected ==
    \A t \in Threads :
        /\ (pc[t] = "done" /\ MalformedPathCall(t)) =>
              th[t].err = EINVAL /\ th[t].calls = << >> /\ Untouched(t)
        /\ (pc[t] = "done" /\ MalformedSeek(t) /\ th[t].whence # SeekEnd) =>
              th[t].err = EINVAL /\ th[t].calls = << >> /\ Untouched(t)
        /\ (Returned(t, "Seek") /\ Known(t) /\ th[t].whence = SeekEnd) =>
              /\ Len(th[t].calls) = 1
              /\ th[t].calls[1].name = "fstatSync"
              /\ th[t].calls[1].thrown # NoThrown =>
                     th[t].err = Translated(th[t].calls[1].thrown) /\ Untouched(t)
              /\ (th[t].calls[1].thrown = NoThrown /\ Negative(th[t].size + th[t].off)) =>
                     th[t].err = EINVAL /\ Untouched(t)

\* A Seek from the end with a negative target: EINVAL after the host's fstatSync.
C10_Witness ==
    \E t \in Threads :
        /\ Returned(t, "Seek") /\ Known(t)
        /\ th[t].whence = SeekEnd
        /\ th[t].size > 0 /\ th[t].size + th[t].off < 0
        /\ th[t].err = EINVAL
        /\ Len(th[t].calls) = 1


\* The Open that has returned found a directory: its fstatSync call, the
\* second host call it made, returned and the path is a directory.
StatSawDirectory(t) ==
    /\ Len(th[t].calls) >= 2
    /\ th[t].calls[2].name = "fstatSync"
    /\ th[t].calls[2].thrown = NoThrown
    /\ IsDirectory(th[t].path)

\* C11 as stated: ReadDirent on a record without a queue is EINVAL and
\* changes nothing, and ReadDirent on a descriptor opened on a directory
\* never is EINVAL.
C11_Original ==
    \A t \in Threads :
        (Returned(t, "ReadDirent") /\ Known(t)) =>
            /\ PreRec(t).entriesNil => th[t].err = EINVAL /\ Untouched(t)
            /\ IsDirectory(PreRec(t).path) => th[t].err # EINVAL

\* C11, amended: ReadDirent on a record without a queue (the standard
\* streams, a descriptor opened on a file, and a descriptor opened on a
\* directory while the stat of Open failed) is EINVAL, returns 0, calls the
\* host never and changes nothing; a descriptor has a queue exactly when
\* the stat of its Open returned and reported a directory, and ReadDirent
\* on it returns no error, also when the listing is empty or drained.
C11_AbsentQueueIsInvalid ==
    /\ \A t \in Threads :
        (Returned(t, "ReadDirent") /\ Known(t)) =>
            /\ PreRec(t).entriesNil =>
                  /\ th[t].err = EINVAL /\ th[t].ret = 0
                  /\ th[t].calls = << >> /\ Untouched(t)
            /\ ~PreRec(t).entriesNil => th[t].err = Nil
    /\ \A t \in Threads :
        (Returned(t, "Open") /\ th[t].err = Nil /\ th[t].ret \in DOMAIN files) =>
            (heap[files[th[t].ret]].entriesNil <=> ~StatSawDirectory(t))
    /\ \A fd \in StdFds :
        (closedBy[fd] = "no" /\ ~openedBy[fd].live) => heap[files[fd]].entriesNil

\* ReadDirent on a directory whose listing was empty: 0 bytes and no error.
C11_Witness ==
    \E t \in Threads :
        /\ Returned(t, "ReadDirent") /\ Known(t)
        /\ ~PreRec(t).entriesNil
        /\ PreRec(t).listing = << >>
        /\ th[t].err = Nil /\ th[t].ret = 0


\* A raised value recoverErr can translate: a js.Error whose code the table has.
Translatable(x) == x.js /\ x.code \in DOMAIN errnoByCode
Failed(c) == c.thrown # NoThrown
LastCall(t) == th[t].calls[Len(th[t].calls)]

\* The panic that ended thread t's operation is the value its last host
\* call raised, and recoverErr could not translate it.
Reraised(t) ==
    /\ th[t].calls # << >>
    /\ Failed(LastCall(t))
    /\ ~Translatable(LastCall(t).thrown)
    /\ th[t].thrown = LastCall(t).thrown

\* C12 as stated: an operation that returned translated every failure its
\* host calls raised and returned that errno; an operation that did not
\* return raised again, unchanged, a failure that cannot be translated.
C12_Original ==
    \A t \in Threads :
        /\ pc[t] = "done" =>
              \A i \in DOMAIN th[t].calls :
                  Failed(th[t].calls[i]) =>
                      /\ Translatable(th[t].calls[i].thrown)
                      /\ th[t].err = errnoByCode[th[t].calls[i].thrown.code]
        /\ pc[t] = "panicked" => Reraised(t)

\* The stat call Open makes on the descriptor it has just obtained.
StatOfOpen(t, i) == th[t].op = "Open" /\ th[t].calls[i].name = "fstatSync"

\* C12, amended: a failure with a code of the table never ends the
\* operation with a panic: it is the operation's error, and the failed call
\* was the operation's last, except that Open drops the error of its stat
\* call and goes on as for a plain file; every other failure is raised
\* again unchanged and the operation does not return.
C12_ErrorsTranslatedOrReraised ==
    \A t \in Threads :
        /\ pc[t] = "done" =>
              \A i \in DOMAIN th[t].calls :
                  Failed(th[t].calls[i]) =>
                      /\ Translatable(th[t].calls[i].thrown)
                      /\ IF StatOfOpen(t, i)
                         THEN /\ i = Len(th[t].calls)
                              /\ th[t].err = Nil
                              /\ th[t].ret \in DOMAIN files
                              /\ heap[files[th[t].ret]].entriesNil
                         ELSE /\ i = Len(th[t].calls)
                              /\ th[t].err = errnoByCode[th[t].calls[i].thrown.code]
        /\ pc[t] = "panicked" => Reraised(t)
        /\ pc[t] \notin {"done", "panicked", "idle"} =>
              \A i \in DOMAIN th[t].calls :
                  Failed(th[t].calls[i]) => Translatable(th[t].calls[i].thrown)

\* Chdir ended by a host failure whose code the table lacks.
C12_Witness ==
    \E t \in Threads :
        /\ pc[t] = "panicked"
        /\ th[t].op = "Chdir"
        /\ th[t].thrown.js /\ th[t].thrown.code \notin DOMAIN errnoByCode


\* The positions of the bits set in n.
RECURSIVE BitsFrom(_, _)
BitsFrom(n, i) ==
    IF n = 0 THEN {} ELSE (IF n % 2 = 1 THEN {i} ELSE {}) \cup BitsFrom(n \div 2, i + 1)
Bits(n) == BitsFrom(n, 0)

\* The eight abstract bits, each with its host constant.
FlagPairs ==
    {<<O_WRONLY, nodeWRONLY>>, <<O_RDWR, nodeRDWR>>, <<O_CREATE, nodeCREATE>>,
     <<O_TRUNC, nodeTRUNC>>, <<O_APPEND, nodeAPPEND>>, <<O_EXCL, nodeEXCL>>,
     <<O_NONBLOCK, nodeNONBLOCK>>, <<O_SYNC, nodeSYNC>>}

\* The thread is inside an Open that has passed its path check, or has
\* returned from one: flags is what openSync is or was given.
FlagsPassed(t) ==
    th[t].op = "Open" /\ (pc[t] = "Open_openSync" \/ th[t].calls # << >>)

\* C13: the flags Open passes to the host hold the bits of the host
\* constants of the abstract bits set in openmode, and no other bit.
C13_FlagsAreTheSetBits ==
    \A t \in Threads :
        FlagsPassed(t) =>
            Bits(th[t].flags) =
                UNION {Bits(p[2]) : p \in {q \in FlagPairs : Bits(q[1]) \subseteq Bits(th[t].openmode)}}

\* An Open with create, exclusive-create and write-only and no other bit
\* has made its openSync call.
C13_Witness ==
    \E t \in Threads :
        /\ Returned(t, "Open") /\ th[t].calls # << >>
        /\ th[t].openmode = O_WRONLY + O_CREATE + O_EXCL
        /\ th[t].flags = nodeWRONLY + nodeCREATE + nodeEXCL


\* The step sets record r's seeked flag: it is the step of line 449 of a
\* Seek on r whose target is not negative, which goes on to return it.
SeekSets(r) ==
    \E t \in Threads :
        /\ pc[t] = "Seek_seeked" /\ th[t].op = "Seek"
        /\ th[t].f = r /\ th[t].newPos >= 0
        /\ pc'[t] = "Seek_pos"

\* C14: a record is created with seeked false; a step that makes it true
\* is the step of a successful Seek on the record; and no step of any
\* operation makes it false again while the record exists.
C14_SeekedIsPermanent ==
    [][\A r \in DOMAIN heap' :
          IF r \in DOMAIN heap
          THEN /\ heap[r].seeked => heap'[r].seeked
               /\ (~heap[r].seeked /\ heap'[r].seeked) => SeekSets(r)
          ELSE ~heap'[r].seeked]_vars

\* A record that had been positioned is still so after a Seek on it failed.
C14_Witness ==
    \E t \in Threads :
        /\ Returned(t, "Seek") /\ Known(t)
        /\ th[t].err = EINVAL
        /\ PreRec(t).seeked
        /\ th[t].fd \in DOMAIN files
        /\ heap[files[th[t].fd]].seeked


\* C15: a Read or Write on a known descriptor makes one host call: with
\* the record positioned, at the offset that is the record's position
\* before the call, otherwise with no offset; the position afterwards is the
\* position before plus the count returned; with an error the count is 0
\* and the position unchanged.
C15_TransferFollowsPosition ==
    \A t \in Threads, op \in {"Read", "Write"} :
        (Returned(t, op) /\ Known(t)) =>
            LET c == th[t].calls[1]
                now == heap[files[th[t].fd]]
            IN  /\ Len(th[t].calls) = 1
                /\ c.name = (IF op = "Read" THEN "readSync" ELSE "writeSync")
                /\ c.fd = th[t].fd
                /\ PreRec(t).seeked => c.positioned /\ c.off = PreRec(t).pos
                /\ ~PreRec(t).seeked => ~c.positioned
                /\ files = th[t].pre.files
                /\ now.pos = PreRec(t).pos + th[t].ret
                /\ now.seeked = PreRec(t).seeked
                /\ th[t].ret >= 0 /\ th[t].ret <= th[t].len
                /\ th[t].err = Translated(c.thrown)
                /\ th[t].err # Nil => th[t].ret = 0 /\ now.pos = PreRec(t).pos

\* A Read of some bytes on a positioned record whose position was not 0.
C15_Witness ==
    \E t \in Threads :
        /\ Returned(t, "Read") /\ Known(t)
        /\ PreRec(t).seeked /\ PreRec(t).pos > 0
        /\ th[t].ret > 0
        /\ th[t].calls[1].off = PreRec(t).pos


\* Record r is the one a Read, Write or Seek in progress found for its
\* descriptor, which is still the table's record for that descriptor.
MayMove(r) ==
    \E t \in Threads :
        /\ th[t].op \in {"Read", "Write", "Seek"}
        /\ pc[t] \notin {"idle", "done", "panicked"}
        /\ th[t].f = r
        /\ th[t].fd \in DOMAIN files /\ files[th[t].fd] = r

\* C16: a step that changes a record's position or seeked flag is a step
\* of a Read, Write or Seek on the record's descriptor; the steps of every
\* other operation, and of operations on other descriptors, leave both as
\* they are.
C16_OnlyReadWriteSeekMove ==
    [][\A r \in DOMAIN heap \cap DOMAIN heap' :
          (heap'[r].pos # heap[r].pos \/ heap'[r].seeked # heap[r].seeked) => MayMove(r)]_vars

\* A Pread that transferred bytes on a descriptor whose position was not 0
\* and is not changed.
C16_Witness ==
    \E t \in Threads :
        /\ Returned(t, "Pread") /\ Known(t)
        /\ th[t].ret > 0
        /\ PreRec(t).pos > 0
        /\ th[t].fd \in DOMAIN files
        /\ heap[files[th[t].fd]].pos = PreRec(t).pos


\* Where a thread is inside the table: fdToFile's lookup, Open's insert,
\* Close's delete.
InTable == {"fdToFile", "Open_insert", "Close_delete"}

\* The step is a host call of thread t.
CallsHost(t) == Len(th'[t].calls) > Len(th[t].calls)

\* C17: a thread holds filesMu exactly while it is at the lookup, insert or
\* delete step of its operation, so no two threads are at such a step
\* together; and no host call of a thread is made with the mutex held by
\* that thread, before or after the step.
C17_MutexOnlyAroundTable ==
    /\ [](\A t \in Threads : filesMu = t <=> pc[t] \in InTable)
    /\ [](\A t, u \in Threads : (pc[t] \in InTable /\ pc[u] \in InTable) => t = u)
    /\ [][\A t \in Threads : CallsHost(t) => filesMu # t /\ filesMu' # t]_vars

\* One thread is before its host call closeSync while the other is inside
\* the table with the mutex, on another descriptor.
C17_Witness ==
    \E t, u \in Threads :
        /\ pc[t] = "Close_closeSync"
        /\ pc[u] = "fdToFile" /\ filesMu = u
        /\ th[u].fd # th[t].fd


\* The smaller of two positions.
Least(a, b) == IF a <= b THEN a ELSE b

\* Threads t and u made the only two calls so far, both a Write on the same
\* descriptor that the table held and still holds, and both returned
\* without an error.
TwoWrites(t, u) ==
    /\ t # u /\ nops = 2
    /\ Returned(t, "Write") /\ Returned(u, "Write")
    /\ th[t].fd = th[u].fd /\ Known(t) /\ Known(u)
    /\ th[t].err = Nil /\ th[u].err = Nil
    /\ th[t].fd \in DOMAIN files

\* C18: when two threads have each written the same descriptor, however
\* their steps interleaved, the record's position is the position before
\* the two calls plus the byte counts the two calls returned.
C18_NoLostUpdate ==
    \A t, u \in Threads :
        TwoWrites(t, u) =>
            heap[files[th[t].fd]].pos =
                Least(PreRec(t).pos, PreRec(u).pos) + th[t].ret + th[u].ret

\* The descriptors the host handed to the Open thread t returned from:
\* the ones its fstatSync calls were made on.
HostGave(t) ==
    {th[t].calls[i].fd : i \in {j \in DOMAIN th[t].calls : th[t].calls[j].name = "fstatSync"}}

\* C19: when Open has returned an error, a descriptor the host opened for
\* that call is closed in the host again or has a record in the table: no
\* host descriptor is left open without a table entry.
C19_FailedOpenLeaksNothing ==
    \A t \in Threads :
        (Returned(t, "Open") /\ th[t].err # Nil) =>
            \A fd \in HostGave(t) : fd \notin hostOpen \/ fd \in DOMAIN files

\* C20: a Read or Write never makes its host call on a descriptor number
\* that the table has meanwhile given to another record, that is, a number
\* closed and handed out again by Open after the lookup.
C20_TransferOnLookedUpFile ==
    [][\A t \in Threads :
          (CallsHost(t) /\ th[t].op \in {"Read", "Write"} /\ th[t].fd \in DOMAIN files)
              => files[th[t].fd] = th[t].f]_vars

=============================================================================
